---- MODULE Spec2Model ----
(***************************************************************************)
(* Model of ItemsDataMonitor (WayPointDB AirTag integration): the poll     *)
(* loop, the change detector, the pending queue with its persisted file    *)
(* and the delivery attempt.                                               *)
(*                                                                         *)
(* Strings are sequences of tokens: <<"A">> is the serial "A",             *)
(* <<"http://", "x", "/">> is the URL "http://x/".  The tokens "::", "/",  *)
(* "http://" and "https://" are the substrings the code looks for.         *)
(***************************************************************************)
EXTENDS Integers, Sequences, FiniteSets, TLC

VARIABLES
    polling,               \* self.polling
    timers,                \* number of pending root.after callbacks
    last_items,            \* self.last_items
    last_sent_timestamps,  \* self.last_sent_timestamps (serial -> time)
    pending_data,          \* self.pending_data (key -> list of points)
    pending_file,          \* content of PENDING_DATA_FILE
    config,                \* self.config["tag_configs"]
    pc,                    \* position of the single thread of control
    caller,                \* who runs the current cycle: "poll" or "force"
    force_send,            \* argument of the running check_items_data
    new_items,             \* local new_items of the running cycle
    work,                  \* (item, row) pairs the running cycle still has to send
    attempt_args,          \* arguments of the pending attempt_send_pending call
    log,                   \* appends and HTTP requests of the current cycle
    result,                \* how the last check_items_data read ended
    call                   \* application of a pure function (argument and value)

vars == <<polling, timers, last_items, last_sent_timestamps, pending_data,
          pending_file, config, pc, caller, force_send, new_items, work,
          attempt_args, log, result, call>>

(***************************************************************************)
(* Bounds                                                                  *)
(***************************************************************************)
MaxQueue == 2
MaxTimers == 2
MaxTime == 2

(***************************************************************************)
(* Strings                                                                 *)
(***************************************************************************)
EmptyStr == <<>>
SerialA == <<"A">>
SerialB == <<"B">>
UrlX == <<"http://", "x">>
UrlXSlash == <<"http://", "x", "/">>
UrlY == <<"https://", "y", "/">>
UrlFtp == <<"ftp://", "x">>
ApiKey == <<"k">>

Last(s) == s[Len(s)]

endswith(s, tok) == Len(s) > 0 /\ s[Len(s)] = tok

startswith(s, tok) == Len(s) > 0 /\ s[1] = tok

\* first index of the token tok in s, 0 when absent
RECURSIVE FindFrom(_, _, _)
FindFrom(s, tok, i) ==
    IF i > Len(s) THEN 0
    ELSE IF s[i] = tok THEN i
    ELSE FindFrom(s, tok, i + 1)

\* str.split("::", 1)
SplitKey(key) ==
    LET i == FindFrom(key, "::", 1)
    IN  IF i = 0 THEN <<key>>
        ELSE <<SubSeq(key, 1, i - 1), SubSeq(key, i + 1, Len(key))>>

\* server_url with the trailing slash added
WithSlash(url) == IF endswith(url, "/") THEN url ELSE url \o <<"/">>

WithPath(url) == WithSlash(url) \o <<"api/v1/gps/batch">>

ValidScheme(url) == startswith(url, "http://") \/ startswith(url, "https://")

MakeKey(serial, server_url) == serial \o <<"::">> \o server_url

(***************************************************************************)
(* Mappings (Python dicts)                                                 *)
(***************************************************************************)
EmptyMap == [k \in {} |-> <<>>]

MapPut(m, k, v) == [x \in (DOMAIN m) \cup {k} |-> IF x = k THEN v ELSE m[x]]

\* dict.get(k, default)
Get(m, k, default) == IF k \in DOMAIN m THEN m[k] ELSE default

\* the queue of a key, empty when the key is not in the mapping
QueueOf(m, k) == Get(m, k, <<>>)

(***************************************************************************)
(* Items.data: the snapshot file as json.loads sees it                     *)
(***************************************************************************)
EmptyRec == [f \in {} |-> 0]

JsonObject(fs) == [kind |-> "object", fields |-> fs]
JsonNull == [kind |-> "null", fields |-> EmptyRec]

RawLoc(lat, lon, ts, hacc) ==
    JsonObject([latitude |-> lat, longitude |-> lon, timeStamp |-> ts,
                horizontalAccuracy |-> hacc, verticalAccuracy |-> 0,
                altitude |-> 0])

RawItem(serial, loc) ==
    JsonObject([name |-> serial, serialNumber |-> serial,
                batteryStatus |-> 1, location |-> loc])

Loc1 == RawLoc(1, 2, 1000000, 5)
Loc2 == RawLoc(1, 2, 2000000, 5)

Unreadable == [status |-> "unreadable", top |-> "none", records |-> <<>>]
TopObject == [status |-> "ok", top |-> "object", records |-> <<>>]
ItemList(rs) == [status |-> "ok", top |-> "list", records |-> rs]

\* the contents of Items.data a cycle can meet
Snapshots ==
    { Unreadable,
      TopObject,
      ItemList(<<RawItem(SerialA, JsonNull)>>),
      ItemList(<<JsonObject(EmptyRec)>>),
      ItemList(<<RawItem(SerialA, Loc1)>>),
      ItemList(<<RawItem(SerialA, Loc2)>>),
      ItemList(<<RawItem(SerialA, Loc1), RawItem(SerialB, Loc1)>>) }

(***************************************************************************)
(* Data models                                                             *)
(***************************************************************************)
\* ItemLocation; an absent location (None) is <<>>, a present one <<loc>>
ItemLocation(lat, lon, ts, hacc, vacc, alt) ==
    [latitude |-> lat, longitude |-> lon, timeStamp |-> ts,
     horizontalAccuracy |-> hacc, verticalAccuracy |-> vacc, altitude |-> alt]

FindMyItem(name, serial, battery, loc) ==
    [name |-> name, serialNumber |-> serial, batteryStatus |-> battery,
     location |-> loc]

Row(serial, url) == [serial |-> serial, server_url |-> url, api_key |-> ApiKey]

\* the destination lists of the configuration file
Configs ==
    { <<Row(SerialA, UrlX)>>,
      <<Row(SerialA, UrlX), Row(SerialA, UrlX)>>,
      <<Row(SerialA, UrlX), Row(SerialB, UrlY)>>,
      <<Row(SerialA, EmptyStr), Row(SerialA, UrlFtp), Row(SerialA, UrlXSlash)>> }

(***************************************************************************)
(* Source reader: the loop that builds new_items                           *)
(***************************************************************************)
\* d.get / loc_data.get raise AttributeError on anything that is not a dict
RecordRaises(d) ==
    \/ d.kind # "object"
    \/ /\ "location" \in DOMAIN d.fields
       /\ d.fields.location.kind # "object"

\* `for d in data` over something that is not a list of dicts raises
BuildRaises(data) ==
    \/ data.top # "list"
    \/ \E i \in 1..Len(data.records) : RecordRaises(data.records[i])

BuildItem(d) ==
    LET loc_data == Get(d.fields, "location", JsonObject(EmptyRec)).fields
    IN  FindMyItem(
            Get(d.fields, "name", EmptyStr),
            Get(d.fields, "serialNumber", EmptyStr),
            Get(d.fields, "batteryStatus", 0),
            << ItemLocation(Get(loc_data, "latitude", 0),
                            Get(loc_data, "longitude", 0),
                            Get(loc_data, "timeStamp", 0) \div 1000,
                            Get(loc_data, "horizontalAccuracy", 0),
                            Get(loc_data, "verticalAccuracy", 0),
                            Get(loc_data, "altitude", 0)) >>)

BuildItems(data) == [i \in 1..Len(data.records) |-> BuildItem(data.records[i])]

(***************************************************************************)
(* Change detector                                                         *)
(***************************************************************************)
\* next((x for x in last_items if x.serialNumber == serial), None)
RECURSIVE FirstWithSerial(_, _)
FirstWithSerial(items, serial) ==
    IF items = <<>> THEN <<>>
    ELSE IF Head(items).serialNumber = serial THEN <<Head(items)>>
    ELSE FirstWithSerial(Tail(items), serial)

\* variant: a change of the horizontal accuracy counts as a change too
location_has_changed_Accuracy(items, new_item) ==
    LET old_item == FirstWithSerial(items, new_item.serialNumber)
    IN  IF old_item = <<>> THEN TRUE
        ELSE IF old_item[1].location = <<>> \/ new_item.location = <<>> THEN FALSE
        ELSE LET o == old_item[1].location[1]
                 n == new_item.location[1]
             IN  \/ o.timeStamp # n.timeStamp
                 \/ o.latitude # n.latitude
                 \/ o.longitude # n.longitude
                 \/ o.horizontalAccuracy # n.horizontalAccuracy

location_has_changed(items, new_item) ==
    LET old_item == FirstWithSerial(items, new_item.serialNumber)
    IN  IF old_item = <<>> THEN TRUE
        ELSE IF old_item[1].location = <<>> \/ new_item.location = <<>> THEN FALSE
        ELSE LET o == old_item[1].location[1]
                 n == new_item.location[1]
             IN  \/ o.timeStamp # n.timeStamp
                 \/ o.latitude # n.latitude
                 \/ o.longitude # n.longitude

(***************************************************************************)
(* Fan-out                                                                 *)
(***************************************************************************)
\* variant: only the first row with the serial is used
RECURSIVE SelectRows_First(_, _)
SelectRows_First(rows, serial) ==
    IF rows = <<>> THEN <<>>
    ELSE IF Head(rows).serial = serial THEN <<Head(rows)>>
    ELSE SelectRows_First(Tail(rows), serial)

RECURSIVE SelectRows(_, _)
SelectRows(rows, serial) ==
    IF rows = <<>> THEN <<>>
    ELSE IF Head(rows).serial = serial
         THEN <<Head(rows)>> \o SelectRows(Tail(rows), serial)
         ELSE SelectRows(Tail(rows), serial)

\* the send_item_location calls of send_item_location_to_all_configs(item)
RECURSIVE CallsFor(_, _)
CallsFor(item, rows) ==
    IF rows = <<>> THEN <<>>
    ELSE <<[item |-> item, row |-> Head(rows)]>> \o CallsFor(item, Tail(rows))

\* variant: force_send is not looked at
RECURSIVE WorkList_IgnoreForce(_, _, _, _)
WorkList_IgnoreForce(items, old_items, rows, force) ==
    IF items = <<>> THEN <<>>
    ELSE (IF location_has_changed(old_items, Head(items))
          THEN CallsFor(Head(items), SelectRows(rows, Head(items).serialNumber))
          ELSE <<>>)
         \o WorkList_IgnoreForce(Tail(items), old_items, rows, force)

\* the send_item_location calls of one cycle, in the order the loop makes them
RECURSIVE WorkList(_, _, _, _)
WorkList(items, old_items, rows, force) ==
    IF items = <<>> THEN <<>>
    ELSE (IF location_has_changed(old_items, Head(items)) \/ force
          THEN CallsFor(Head(items), SelectRows(rows, Head(items).serialNumber))
          ELSE <<>>)
         \o WorkList(Tail(items), old_items, rows, force)

(***************************************************************************)
(* Pending queue store                                                     *)
(***************************************************************************)
\* str(x)
Str(x) == <<"str", x>>

NewDataPoint(loc) ==
    [timestamp |-> Str(loc.timeStamp), latitude |-> loc.latitude,
     longitude |-> loc.longitude, horizontal_accuracy |-> loc.horizontalAccuracy,
     altitude |-> loc.altitude, vertical_accuracy |-> loc.verticalAccuracy,
     heading |-> 0, heading_accuracy |-> 0, speed |-> 0, speed_accuracy |-> 0]

\* variant: the scheme of the URL is not checked
RowSkipped_NoSchemeCheck(item, row) ==
    \/ item.location = <<>>
    \/ row.server_url = EmptyStr

\* send_item_location returns before the append for such a row
RowSkipped(item, row) ==
    \/ item.location = <<>>
    \/ row.server_url = EmptyStr
    \/ ~ValidScheme(WithPath(row.server_url))

PendingKey(item, row) == MakeKey(item.serialNumber, WithSlash(row.server_url))

AppendPoint(pd, key, point) == MapPut(pd, key, Append(QueueOf(pd, key), point))

\* variant: a delivery clears every queue
ClearQueue_All(pd, key) == [x \in (DOMAIN pd) \cup {key} |-> <<>>]

ClearQueue(pd, key) == MapPut(pd, key, <<>>)

\* the file: missing, a JSON object, or something json.load rejects
FileMissing == [status |-> "missing", data |-> EmptyMap]
FileCorrupt == [status |-> "corrupt", data |-> EmptyMap]
FileOf(pd) == [status |-> "ok", data |-> pd]

load_pending_data(file) == IF file.status = "ok" THEN file.data ELSE EmptyMap

\* open(..., "w") truncates the file and json.dump writes it piece by piece:
\* the write succeeds, or it stops part way (disk full, process killed) and
\* leaves a file json.load rejects; the exception is caught and printed
WriteOutcomes == {"written", "partial"}

save_pending_data(file, pd, outcome) ==
    IF outcome = "written" THEN FileOf(pd) ELSE FileCorrupt

(***************************************************************************)
(* Delivery attempt                                                        *)
(***************************************************************************)
StatusCodes == {200, 201, 500}

Response(code) == [kind |-> "response", status |-> code]
TransportError == [kind |-> "exception", status |-> 0]

\* what requests.post can do
Outcomes == {Response(c) : c \in StatusCodes} \cup {TransportError}

\* variant: any HTTP response counts as delivered
Delivered_AnyResponse(outcome) == outcome.kind = "response"

Delivered(outcome) == outcome.kind = "response" /\ outcome.status = 200

\* attempt_send_pending returns before the request
NothingToSend(pd, key) ==
    \/ key \notin DOMAIN pd
    \/ pd[key] = <<>>
    \/ Len(SplitKey(key)) # 2

\* variant: only the newest point is sent
Payload_Newest(pd, key) == <<Last(pd[key])>>

Payload(pd, key) == pd[key]

\* time.time(): later than every time the monitor has stored
RECURSIVE MaxOf(_)
MaxOf(S) ==
    IF S = {} THEN 0
    ELSE LET x == CHOOSE y \in S : TRUE
             m == MaxOf(S \ {x})
         IN  IF x > m THEN x ELSE m

Now(ts) == 1 + MaxOf({ts[s] : s \in DOMAIN ts})

(***************************************************************************)
(* State                                                                   *)
(***************************************************************************)
NoArgs == [key |-> EmptyStr, api_key |-> EmptyStr]
NoCall == [fn |-> "none", args |-> <<>>, value |-> FALSE, done |-> FALSE]

AppendEvent(key, point) ==
    [ev |-> "append", key |-> key, data |-> <<point>>, url |-> EmptyStr,
     api_key |-> EmptyStr, outcome |-> [kind |-> "none", status |-> 0]]

PostEvent(key, url, api_key, gps_data, outcome) ==
    [ev |-> "post", key |-> key, data |-> gps_data, url |-> url,
     api_key |-> api_key, outcome |-> outcome]

\* ItemsDataMonitor.__init__ with the file it finds
Constructed(file) ==
    /\ polling = FALSE
    /\ timers = 0
    /\ last_items = <<>>
    /\ last_sent_timestamps = EmptyMap
    /\ pending_data = load_pending_data(file)
    /\ pending_file = file
    /\ pc = "idle"
    /\ caller = "none"
    /\ force_send = FALSE
    /\ new_items = <<>>
    /\ work = <<>>
    /\ attempt_args = NoArgs
    /\ log = <<>>
    /\ result = "none"

Init ==
    /\ Constructed(FileMissing)
    /\ config \in Configs
    /\ call = NoCall

\* the number of appends the calls in w make to the queue of key
RECURSIVE AppendsTo(_, _)
AppendsTo(w, key) ==
    IF w = <<>> THEN 0
    ELSE (IF ~RowSkipped(Head(w).item, Head(w).row)
             /\ PendingKey(Head(w).item, Head(w).row) = key
          THEN 1 ELSE 0) + AppendsTo(Tail(w), key)

\* every queue has room for the appends of the calls in w
HasRoom(w) ==
    \A i \in 1..Len(w) :
        LET key == PendingKey(w[i].item, w[i].row)
        IN  Len(QueueOf(pending_data, key)) + AppendsTo(w, key) <= MaxQueue

NextPc(w) == IF w = <<>> THEN "finish" ELSE "send"

(***************************************************************************)
(* Poll cycle                                                              *)
(***************************************************************************)
\* check_items_data up to the first send_item_location call; who is "poll"
\* when poll() runs the cycle, t the number of callbacks still pending
\* how the try block and the loop that builds new_items end
ReadStatus(data) ==
    IF data.status = "unreadable" THEN "unreadable"
    ELSE IF BuildRaises(data) THEN "raised"
    ELSE "ok"

\* variant: the except branch does not return
AfterRead_FallThrough(status, w) == IF status = "raised" THEN "return" ELSE NextPc(w)

\* where control goes after the read: the except branch returns, an exception
\* leaves the function, otherwise the send loop starts
AfterRead(status, w) == IF status # "ok" THEN "return" ELSE NextPc(w)

CheckItemsData(force, who, t) ==
    \E data \in Snapshots :
        LET status == ReadStatus(data)
        IN  /\ caller' = who
            /\ force_send' = force
            /\ timers' = t
            /\ log' = <<>>
            /\ attempt_args' = NoArgs
            /\ result' = status
            /\ new_items' = IF status = "ok" THEN BuildItems(data) ELSE <<>>
            /\ work' = IF status = "ok"
                       THEN WorkList(new_items', last_items, config, force)
                       ELSE <<>>
            /\ HasRoom(work')
            /\ pc' = AfterRead(status, work')
            /\ UNCHANGED <<last_items, last_sent_timestamps, pending_data,
                           pending_file, config, call>>

start_polling ==
    /\ pc = "idle"
    /\ timers < MaxTimers
    /\ polling' = TRUE
    /\ CheckItemsData(FALSE, "poll", timers)

stop_polling ==
    /\ pc = "idle"
    /\ polling
    /\ polling' = FALSE
    /\ UNCHANGED <<timers, last_items, last_sent_timestamps, pending_data,
                   pending_file, config, pc, caller, force_send, new_items,
                   work, attempt_args, log, result, call>>

\* a root.after callback runs poll()
poll ==
    /\ pc = "idle"
    /\ timers > 0
    /\ UNCHANGED polling
    /\ IF ~polling
       THEN /\ timers' = timers - 1
            /\ UNCHANGED <<last_items, last_sent_timestamps, pending_data,
                           pending_file, config, pc, caller, force_send,
                           new_items, work, attempt_args, log, result, call>>
       ELSE CheckItemsData(FALSE, "poll", timers - 1)

\* variant: the button handler runs in the middle of a running cycle
force_refresh_Reentrant ==
    /\ UNCHANGED polling
    /\ CheckItemsData(TRUE, "force", timers)

force_refresh ==
    /\ pc = "idle"
    /\ UNCHANGED polling
    /\ CheckItemsData(TRUE, "force", timers)

\* send_item_location up to the attempt_send_pending call
send_item_location ==
    /\ pc = "send"
    /\ LET item == Head(work).item
           row == Head(work).row
       IN  IF RowSkipped(item, row)
           THEN /\ pc' = NextPc(Tail(work))
                /\ UNCHANGED <<pending_data, pending_file, attempt_args, log>>
           ELSE \E written \in WriteOutcomes :
                    LET key == PendingKey(item, row)
                        point == NewDataPoint(item.location[1])
                    IN  /\ pending_data' = AppendPoint(pending_data, key, point)
                        /\ pending_file' = save_pending_data(pending_file,
                                                             pending_data', written)
                        /\ attempt_args' = [key |-> key, api_key |-> row.api_key]
                        /\ log' = Append(log, AppendEvent(key, point))
                        /\ pc' = "attempt"
    /\ work' = Tail(work)
    /\ UNCHANGED <<polling, timers, last_items, last_sent_timestamps, config,
                   caller, force_send, new_items, result, call>>

attempt_send_pending ==
    /\ pc = "attempt"
    /\ LET key == attempt_args.key
       IN  IF NothingToSend(pending_data, key)
           THEN UNCHANGED <<last_sent_timestamps, pending_data, pending_file, log>>
           ELSE \E outcome \in Outcomes :
                    LET parts == SplitKey(key)
                        serial_num == parts[1]
                        final_url == WithPath(parts[2])
                    IN  /\ log' = Append(log, PostEvent(key, final_url,
                                             attempt_args.api_key,
                                             Payload(pending_data, key), outcome))
                        /\ IF Delivered(outcome)
                           THEN /\ Now(last_sent_timestamps) <= MaxTime
                                /\ last_sent_timestamps' =
                                       MapPut(last_sent_timestamps, serial_num,
                                              Now(last_sent_timestamps))
                                /\ pending_data' = ClearQueue(pending_data, key)
                                /\ \E written \in WriteOutcomes :
                                       pending_file' =
                                           save_pending_data(pending_file,
                                                             pending_data', written)
                           ELSE UNCHANGED <<last_sent_timestamps, pending_data,
                                            pending_file>>
    /\ attempt_args' = NoArgs
    /\ pc' = NextPc(work)
    /\ UNCHANGED <<polling, timers, last_items, config, caller, force_send,
                   new_items, work, result, call>>

\* the last two statements of check_items_data
finish_cycle ==
    /\ pc = "finish"
    /\ last_items' = new_items
    /\ new_items' = <<>>
    /\ pc' = "return"
    /\ UNCHANGED <<polling, timers, last_sent_timestamps, pending_data,
                   pending_file, config, caller, force_send, work, attempt_args,
                   log, result, call>>

\* control leaves check_items_data: poll() goes on to root.after unless an
\* exception is passing through it
return_to_caller ==
    /\ pc = "return"
    /\ timers' = IF caller = "poll" /\ result # "raised" THEN timers + 1 ELSE timers
    /\ pc' = "idle"
    /\ caller' = "none"
    /\ force_send' = FALSE
    /\ log' = <<>>
    /\ result' = "none"
    /\ UNCHANGED <<polling, last_items, last_sent_timestamps, pending_data,
                   pending_file, config, new_items, work, attempt_args, call>>

\* the process dies at any point and is started again
restart ==
    /\ polling' = FALSE
    /\ timers' = 0
    /\ last_items' = <<>>
    /\ last_sent_timestamps' = EmptyMap
    /\ pending_data' = load_pending_data(pending_file)
    /\ pc' = "idle"
    /\ caller' = "none"
    /\ force_send' = FALSE
    /\ new_items' = <<>>
    /\ work' = <<>>
    /\ attempt_args' = NoArgs
    /\ log' = <<>>
    /\ result' = "none"
    /\ UNCHANGED <<pending_file, config, call>>

Next ==
    \/ start_polling
    \/ stop_polling
    \/ poll
    \/ force_refresh
    \/ send_item_location
    \/ attempt_send_pending
    \/ finish_cycle
    \/ return_to_caller
    \/ restart

Spec == Init /\ [][Next]_vars

\* the monitor as long as the process is not restarted
NextRun ==
    \/ start_polling
    \/ stop_polling
    \/ poll
    \/ force_refresh
    \/ send_item_location
    \/ attempt_send_pending
    \/ finish_cycle
    \/ return_to_caller

SpecRun == Init /\ [][NextRun]_vars

(***************************************************************************)
(* The change detector on its own                                          *)
(***************************************************************************)
MaxPrev == 2

TestLocations ==
    { <<>>,
      <<ItemLocation(1, 2, 1000, 5, 0, 0)>>,
      <<ItemLocation(1, 2, 1000, 9, 1, 7)>>,
      <<ItemLocation(1, 2, 2000, 5, 0, 0)>>,
      <<ItemLocation(3, 2, 1000, 5, 0, 0)>>,
      <<ItemLocation(1, 4, 1000, 5, 0, 0)>> }

TestItems ==
    { FindMyItem(s, s, 0, l) : s \in {SerialA, SerialB}, l \in TestLocations }

RECURSIVE SeqsUpTo(_, _)
SeqsUpTo(S, n) ==
    IF n = 0 THEN {<<>>}
    ELSE LET shorter == SeqsUpTo(S, n - 1)
         IN  shorter \cup {Append(q, x) : q \in shorter, x \in S}

InitChange ==
    /\ Constructed(FileMissing)
    /\ config = <<>>
    /\ call \in { [fn |-> "location_has_changed", args |-> <<prev, item>>,
                   value |-> FALSE, done |-> FALSE] :
                  prev \in SeqsUpTo(TestItems, MaxPrev), item \in TestItems }

ApplyChange ==
    /\ ~call.done
    /\ call' = [call EXCEPT !.value = location_has_changed(call.args[1],
                                                            call.args[2]),
                             !.done = TRUE]
    /\ UNCHANGED <<polling, timers, last_items, last_sent_timestamps,
                   pending_data, pending_file, config, pc, caller, force_send,
                   new_items, work, attempt_args, log, result>>

NextChange == ApplyChange

SpecChange == InitChange /\ [][NextChange]_vars

(***************************************************************************)
(* Properties                                                              *)
(***************************************************************************)
\* the step sends an HTTP request
Posted == Len(log') = Len(log) + 1 /\ Last(log').ev = "post"

\* the step appends a point to a queue
Appended == Len(log') = Len(log) + 1 /\ Last(log').ev = "append"

Ok200(outcome) == outcome.kind = "response" /\ outcome.status = 200

\* the step is a POST for key k that is answered with HTTP 200
Got200(k) ==
    /\ pc = "attempt"
    /\ attempt_args.key = k
    /\ Posted
    /\ Last(log').key = k
    /\ Ok200(Last(log').outcome)

\* the step empties the queue of k
Emptied(k) == QueueOf(pending_data, k) # <<>> /\ QueueOf(pending_data', k) = <<>>

\* the step sets a new last-sent time for serial s
Stamped(s) ==
    /\ s \in DOMAIN last_sent_timestamps'
    /\ \/ s \notin DOMAIN last_sent_timestamps
       \/ last_sent_timestamps'[s] # last_sent_timestamps[s]

AllKeys == (DOMAIN pending_data) \cup (DOMAIN pending_data')

\* C1: a delivery attempt that ends with a status other than 200 or with a
\* transport exception changes neither the queues in memory, nor the
\* persisted file, nor the last-sent times, so the points appended before it
\* are all still queued.
C1_FailedAttemptKeepsQueue ==
    [][(Posted /\ ~Ok200(Last(log').outcome))
        => UNCHANGED <<pending_data, pending_file, last_sent_timestamps>>]_vars

\* two points were appended to a key and the last attempt for it failed
C1_Witness ==
    /\ Len(log) >= 1
    /\ Last(log).ev = "post"
    /\ Last(log).outcome.kind = "exception"
    /\ Len(QueueOf(pending_data, Last(log).key)) = 2

\* C2: while the process runs, a queue is emptied and a last-sent time is set
\* only by a POST for that key answered with status exactly 200; such a POST
\* empties the whole queue of the key, sets the last-sent time of the key's
\* serial, and leaves the queues of all other keys as they were.
C2_ClearedIffDelivered ==
    [][~restart =>
        /\ \A k \in AllKeys : Emptied(k) => Got200(k)
        /\ \A s \in DOMAIN last_sent_timestamps' :
               Stamped(s) => \E k \in DOMAIN pending_data :
                                 SplitKey(k)[1] = s /\ Got200(k)
        /\ \A k \in DOMAIN pending_data :
               Got200(k) =>
                   /\ QueueOf(pending_data', k) = <<>>
                   /\ Stamped(SplitKey(k)[1])
                   /\ \A j \in AllKeys \ {k} :
                          QueueOf(pending_data', j) = QueueOf(pending_data, j)]_vars

\* a batch of two points was delivered with 200 while another key keeps its point
C2_Witness ==
    /\ Len(log) >= 1
    /\ Last(log).ev = "post"
    /\ Ok200(Last(log).outcome)
    /\ Len(Last(log).data) = 2
    /\ QueueOf(pending_data, Last(log).key) = <<>>
    /\ SplitKey(Last(log).key)[1] \in DOMAIN last_sent_timestamps
    /\ \E j \in DOMAIN pending_data : j # Last(log).key /\ pending_data[j] # <<>>

\* C3: a poll cycle that is not forced re-attempts delivery for every key that
\* still has points queued from a failed delivery: when the cycle reaches its
\* end, a request was sent for each key whose queue is not empty.
C3_RetriedNextCycle ==
    (pc = "finish" /\ ~force_send) =>
        \A k \in DOMAIN pending_data :
            pending_data[k] # <<>> =>
                \E i \in 1..Len(log) : log[i].ev = "post" /\ log[i].key = k

\* C4: every POST carries exactly the queue of its key at the moment of
\* sending, in queue order, and the last entry is the point appended just
\* before in this cycle; an append puts the point at the tail of the queue.
C4_BatchIsWholeQueue ==
    [][/\ Posted =>
            /\ Last(log').key = attempt_args.key
            /\ Last(log').data = QueueOf(pending_data, attempt_args.key)
            /\ Len(log) >= 1
            /\ Last(log).ev = "append"
            /\ Last(log).key = attempt_args.key
            /\ Last(Last(log').data) = Last(log).data[1]
       /\ Appended =>
            QueueOf(pending_data', Last(log').key) =
                Append(QueueOf(pending_data, Last(log').key), Last(log').data[1])]_vars

\* a request with two different points, the older one first
C4_Witness ==
    /\ Len(log) >= 2
    /\ Last(log).ev = "post"
    /\ Len(Last(log).data) = 2
    /\ Last(log).data[1] # Last(log).data[2]
    /\ Last(log).data[2] = log[Len(log) - 1].data[1]

\* C5: in a cycle that is not forced no key gets more than one append.
C5_AppendedOncePerKey ==
    ~force_send =>
        \A i, j \in 1..Len(log) :
            (i < j /\ log[i].ev = "append" /\ log[j].ev = "append")
                => log[i].key # log[j].key

\* C6: a last-sent time is set only when the emptied queue is in the persisted
\* file, and every point in a queue when the process dies is in the queue of
\* its key that load_pending_data returns at the restart.
C6_DurableQueue ==
    [][/\ \A s \in DOMAIN last_sent_timestamps' :
              Stamped(s) =>
                  /\ pending_file'.status = "ok"
                  /\ QueueOf(pending_file'.data, attempt_args.key) = <<>>
       /\ restart =>
              \A k \in DOMAIN pending_data :
                  \A i \in 1..Len(pending_data[k]) :
                      \E j \in 1..Len(QueueOf(pending_data', k)) :
                          QueueOf(pending_data', k)[j] = pending_data[k][i]]_vars

\* C7: after each append and after each clear the persisted file holds the
\* in-memory mapping.
C7_FileFollowsQueue ==
    [][(Appended \/ (Posted /\ Ok200(Last(log').outcome)))
        => (pending_file'.status = "ok" /\ pending_file'.data = pending_data')]_vars

\* C8: while polling is on and no cycle is running, a timer callback for the
\* next cycle is pending.
C8_LoopKeepsRunning == (pc = "idle" /\ polling) => timers >= 1

\* C9: location_has_changed is true when no previous item has the serial,
\* false when the previous (first with that serial) or the new location is
\* absent, and otherwise true iff timestamp, latitude or longitude differ.
C9_ChangeRule ==
    (call.fn = "location_has_changed" /\ call.done) =>
        LET prev == call.args[1]
            item == call.args[2]
            same == {i \in 1..Len(prev) : prev[i].serialNumber = item.serialNumber}
        IN  IF same = {} THEN call.value = TRUE
            ELSE LET old == prev[CHOOSE i \in same : \A j \in same : i <= j]
                 IN  IF old.location = <<>> \/ item.location = <<>>
                     THEN call.value = FALSE
                     ELSE call.value =
                              (\/ old.location[1].timeStamp # item.location[1].timeStamp
                               \/ old.location[1].latitude # item.location[1].latitude
                               \/ old.location[1].longitude # item.location[1].longitude)

\* same timestamp, latitude and longitude, other accuracy and altitude: unchanged
C9_Witness ==
    /\ call.fn = "location_has_changed"
    /\ call.done
    /\ call.value = FALSE
    /\ Len(call.args[1]) = 1
    /\ call.args[1][1].serialNumber = call.args[2].serialNumber
    /\ call.args[1][1].location # <<>>
    /\ call.args[2].location # <<>>
    /\ call.args[1][1].location[1].horizontalAccuracy
           # call.args[2].location[1].horizontalAccuracy
    /\ call.args[1][1].location[1].altitude # call.args[2].location[1].altitude

\* C10: a cycle whose read of the snapshot file fails returns without
\* starting a send: last_items, the queues, the persisted file and the
\* last-sent times stay as they were and no request is sent.
C10_AbortLeavesState ==
    [][(result' = "unreadable" \/ (result = "unreadable" /\ ~restart))
        => /\ UNCHANGED <<last_items, pending_data, pending_file,
                          last_sent_timestamps>>
           /\ log' = <<>>
           /\ pc' \in {"return", "idle"}]_vars

\* the read failed while items, queued points and a last-sent time exist
C10_Witness ==
    /\ result = "unreadable"
    /\ pc = "return"
    /\ last_items # <<>>
    /\ \E k \in DOMAIN pending_data : pending_data[k] # <<>>
    /\ DOMAIN last_sent_timestamps # {}

\* C11: start_polling turns polling on and runs a cycle at once; every cycle
\* run by poll() ends by scheduling the next one; stop_polling turns polling
\* off, and a callback that fires while polling is off runs no cycle and
\* schedules nothing; only start_polling starts cycles again.
C11_StartStopSchedule ==
    [][/\ start_polling => (polling' /\ result' # "none")
       /\ (pc = "return" /\ caller = "poll" /\ pc' = "idle" /\ ~restart)
              => timers' = timers + 1
       /\ stop_polling => ~polling'
       /\ (~polling /\ timers' < timers /\ ~restart)
              => (timers' = timers - 1 /\ pc' = "idle" /\ result' = "none"
                  /\ ~polling')
       /\ (pc = "idle" /\ caller' = "poll" /\ ~start_polling) => polling]_vars

\* the base URL of the row is empty or does not start with http:// or https://
BadRow(row) ==
    \/ row.server_url = <<>>
    \/ row.server_url[1] \notin {"http://", "https://"}

\* C12: for a row whose base URL is empty or has no http(s) scheme nothing is
\* appended, written or sent, and the cycle goes on with the next row; for
\* every other row the fix is appended and the attempt follows.
C12_BadRowSkipped ==
    [][(pc = "send" /\ ~restart) =>
          IF BadRow(Head(work).row)
          THEN /\ UNCHANGED <<pending_data, pending_file, log,
                              last_sent_timestamps>>
               /\ work' = Tail(work)
               /\ pc' = IF Tail(work) = <<>> THEN "finish" ELSE "send"
          ELSE /\ Appended
               /\ pc' = "attempt"]_vars

\* two rows of the item were skipped and its third row got the append
C12_Witness ==
    /\ Len(config) = 3
    /\ config[1].server_url = <<>>
    /\ config[2].server_url[1] = "ftp://"
    /\ pc = "attempt"
    /\ work = <<>>
    /\ Len(log) = 1
    /\ log[1].ev = "append"
    /\ log[1].key = config[3].serial \o <<"::">> \o config[3].server_url

\* the (item, row) pairs a cycle has to serve: the item is changed or the
\* cycle is forced, and the serial of the row is the serial of the item
PairsToServe(items, old_items, rows, force) ==
    { p \in (1..Len(items)) \X (1..Len(rows)) :
        /\ force \/ location_has_changed(old_items, items[p[1]])
        /\ rows[p[2]].serial = items[p[1]].serialNumber }

\* the step starts the send loop of a cycle
LoopStarts == pc = "idle" /\ result' = "ok"

\* C13 as stated: every pair of a changed or forced item and a row with its
\* serial is served, and serving a pair means that the fix is appended to the
\* queue of its key and one request is sent for that key, whatever the
\* outcome of the requests before it.
C13_EveryRowServed ==
    [][/\ LoopStarts =>
              Len(work') = Cardinality(PairsToServe(new_items', last_items,
                                                    config, force_send'))
       /\ (pc = "send" /\ ~restart) =>
              /\ Appended
              /\ Last(log').key = Head(work).item.serialNumber \o <<"::">>
                                      \o WithSlash(Head(work).row.server_url)
              /\ Last(log').data = <<NewDataPoint(Head(work).item.location[1])>>
              /\ pc' = "attempt"
              /\ work' = Tail(work)
       /\ (pc = "attempt" /\ ~restart) =>
              /\ Posted
              /\ Last(log').key = Last(log).key
              /\ work' = work
              /\ pc' = IF work = <<>> THEN "finish" ELSE "send"]_vars

\* C13 amended: the same for every pair whose row has a non-empty http(s)
\* base URL; a pair whose row has none is passed over (C12).
C13_EveryValidRowServed ==
    [][/\ LoopStarts =>
              Len(work') = Cardinality(PairsToServe(new_items', last_items,
                                                    config, force_send'))
       /\ (pc = "send" /\ ~restart /\ ~BadRow(Head(work).row)) =>
              /\ Appended
              /\ Last(log').key = Head(work).item.serialNumber \o <<"::">>
                                      \o WithSlash(Head(work).row.server_url)
              /\ Last(log').data = <<NewDataPoint(Head(work).item.location[1])>>
              /\ pc' = "attempt"
              /\ work' = Tail(work)
       /\ (pc = "attempt" /\ ~restart) =>
              /\ Posted
              /\ Last(log').key = Last(log).key
              /\ work' = work
              /\ pc' = IF work = <<>> THEN "finish" ELSE "send"]_vars

\* two destinations were served in one cycle although the first request
\* failed, and the second batch has exactly one entry
C13_Witness ==
    /\ pc = "finish"
    /\ Len(log) = 4
    /\ log[1].ev = "append"
    /\ log[2].ev = "post"
    /\ log[2].outcome.status = 500
    /\ log[3].ev = "append"
    /\ log[3].key # log[1].key
    /\ log[4].ev = "post"
    /\ log[4].key = log[3].key
    /\ Len(log[4].data) = 1

\* s is an initial part of t
IsPrefix(s, t) == Len(s) <= Len(t) /\ SubSeq(t, 1, Len(s)) = s

\* every request in the record of the running cycle comes right after the
\* append for its key, so no two requests follow each other
LogAlternates(l) ==
    \A i \in 1..Len(l) :
        IF i % 2 = 1
        THEN l[i].ev = "append"
        ELSE l[i].ev = "post" /\ l[i].key = l[i - 1].key

\* C14: at most one cycle is active and requests never overlap: while a cycle
\* is running (from its start to its return, requests included) every step
\* belongs to that cycle, whatever timer callbacks are waiting and whoever
\* started it; a cycle starts only when none is running; each request of a
\* cycle comes right after the append it serves and carries that append.
C14_OneCycleAtATime ==
    [][~restart =>
         /\ pc # "idle" =>
               \/ /\ caller' = caller
                  /\ force_send' = force_send
                  /\ IsPrefix(log, log')
                  /\ polling' = polling
                  /\ timers' = timers
               \/ pc = "return" /\ pc' = "idle"
         /\ (start_polling \/ poll \/ force_refresh \/ stop_polling)
               => (pc = "idle" /\ caller = "none" /\ work = <<>> /\ log = <<>>)
         /\ LogAlternates(log')
         /\ pc' = "attempt" =>
               /\ Last(log').ev = "append"
               /\ Last(log').key = attempt_args'.key
               /\ Last(QueueOf(pending_data', attempt_args'.key)) = Last(log').data[1]
         /\ (pc = "attempt" /\ Posted) =>
               Last(Last(log').data) = Last(log).data[1]]_vars

\* a forced cycle is in the middle of its second request while polling is on
\* and a timer callback is waiting
C14_Witness ==
    /\ polling
    /\ timers > 0
    /\ caller = "force"
    /\ pc = "attempt"
    /\ Len(log) = 3

----------------------------------------------------------------------------
\* load_pending_data on its own, over the files json.load can be given, and
\* the first append to what it returned.  A JSON value carries its kind here,
\* because the reader does not look at the values of the object it returns.

StoredList(points) == [kind |-> "array", items |-> points]
StoredNull == [kind |-> "null", items |-> <<>>]
StoredNumber == [kind |-> "number", items |-> <<>>]

\* valid JSON whose top level is not an object
FileNotObject == [status |-> "not_object", data |-> EmptyMap]

TestPoint1 == NewDataPoint(ItemLocation(1, 2, 1000, 5, 0, 0))
TestPoint2 == NewDataPoint(ItemLocation(1, 2, 2000, 5, 0, 0))

TestKeys == {MakeKey(SerialA, UrlXSlash), MakeKey(SerialB, WithSlash(UrlY))}

TestValues ==
    {StoredList(<<>>), StoredList(<<TestPoint1>>), StoredNull, StoredNumber}

StoredObjects ==
    UNION { [keys -> TestValues] : keys \in SUBSET TestKeys }

StoredFiles ==
    {FileMissing, FileCorrupt, FileNotObject} \cup {FileOf(m) : m \in StoredObjects}

\* pending_data[pending_key].append(...) on a value that is not a list
AppendRaises(pd, key) == key \in DOMAIN pd /\ pd[key].kind # "array"

AppendStored(pd, key, point) ==
    MapPut(pd, key,
           StoredList(Append(IF key \in DOMAIN pd THEN pd[key].items ELSE <<>>,
                            point)))

InitLoad ==
    /\ Constructed(FileMissing)
    /\ config = <<>>
    /\ call \in { [fn |-> "load_pending_data", args |-> <<file>>,
                   value |-> EmptyMap, done |-> FALSE] : file \in StoredFiles }

ApplyLoad ==
    /\ call.fn = "load_pending_data"
    /\ ~call.done
    /\ call' = [call EXCEPT !.value = load_pending_data(call.args[1]),
                             !.done = TRUE]
    /\ UNCHANGED <<polling, timers, last_items, last_sent_timestamps,
                   pending_data, pending_file, config, pc, caller, force_send,
                   new_items, work, attempt_args, log, result>>

\* the first append of send_item_location to the queue that was loaded
FirstAppend ==
    /\ call.fn = "load_pending_data"
    /\ call.done
    /\ \E key \in TestKeys :
           call' = [fn |-> "append", args |-> <<call.value, key>>,
                    value |-> IF AppendRaises(call.value, key)
                              THEN call.value
                              ELSE AppendStored(call.value, key, TestPoint2),
                    done |-> ~AppendRaises(call.value, key)]
    /\ UNCHANGED <<polling, timers, last_items, last_sent_timestamps,
                   pending_data, pending_file, config, pc, caller, force_send,
                   new_items, work, attempt_args, log, result>>

NextLoad == ApplyLoad \/ FirstAppend

SpecLoad == InitLoad /\ [][NextLoad]_vars

\* C15: load_pending_data returns the empty queue for a file that is missing,
\* unreadable, not JSON or not a JSON object; every value of the mapping it
\* returns is a list, and the first append to it goes through.
C15_LoadedQueueUsable ==
    /\ (call.fn = "load_pending_data" /\ call.done) =>
           /\ call.args[1].status # "ok" => call.value = EmptyMap
           /\ \A k \in DOMAIN call.value : call.value[k].kind = "array"
    /\ call.fn = "append" =>
           /\ call.done
           /\ Last(call.value[call.args[2]].items) = TestPoint2

----------------------------------------------------------------------------
\* save_pending_data followed by load_pending_data, over the mappings that
\* appends and clears produce

TestQueues == SeqsUpTo({TestPoint1, TestPoint2}, MaxQueue)

TestMappings == UNION { [keys -> TestQueues] : keys \in SUBSET TestKeys }

InitStore ==
    /\ Constructed(FileMissing)
    /\ config = <<>>
    /\ call \in { [fn |-> "save_then_load", args |-> <<pd, written>>,
                   value |-> EmptyMap, done |-> FALSE] :
                  pd \in TestMappings, written \in WriteOutcomes }

ApplyStore ==
    /\ call.fn = "save_then_load"
    /\ ~call.done
    /\ call' = [call EXCEPT
                  !.value = load_pending_data(
                                save_pending_data(FileMissing, call.args[1],
                                                  call.args[2])),
                  !.done = TRUE]
    /\ UNCHANGED <<polling, timers, last_items, last_sent_timestamps,
                   pending_data, pending_file, config, pc, caller, force_send,
                   new_items, work, attempt_args, log, result>>

NextStore == ApplyStore

SpecStore == InitStore /\ [][NextStore]_vars

\* C16: saving a queue mapping and loading it again gives the same mapping:
\* the same keys, and for each key the same points in the same order.
C16_RoundTrip ==
    (call.fn = "save_then_load" /\ call.done) =>
        /\ DOMAIN call.value = DOMAIN call.args[1]
        /\ \A k \in DOMAIN call.args[1] : call.value[k] = call.args[1][k]

\* the (item, row) pairs of a snapshot in which the row has the item's serial
MatchingPairs(items, rows) ==
    { p \in (1..Len(items)) \X (1..Len(rows)) :
        rows[p[2]].serial = items[p[1]].serialNumber }

C17_WitnessIdle ==
    /\ caller = "force"
    /\ pc = "attempt"
    /\ new_items # <<>>
    /\ new_items = last_items
    /\ ~polling
    /\ timers = 0

----------------------------------------------------------------------------
\* the key send_item_location builds and the parts attempt_send_pending takes
\* from it, over serials and accepted base URLs with and without "::"

SerialSep == <<"A", "::", "http://", "x">>
UrlSep == <<"http://", "x", "::", "http://", "y", "/">>
UrlY2 == <<"http://", "y", "/">>

TestSerials == {SerialA, SerialB, SerialSep}

TestUrls == {UrlX, UrlXSlash, UrlY2, UrlSep}

InitKey ==
    /\ Constructed(FileMissing)
    /\ config = <<>>
    /\ call \in { [fn |-> "pending_key", args |-> <<s1, u1, s2, u2>>,
                   value |-> <<>>, done |-> FALSE] :
                  s1 \in TestSerials, u1 \in TestUrls,
                  s2 \in TestSerials, u2 \in TestUrls }

\* the keys of the two pairs and the parts recovered from the first
ApplyKey ==
    /\ call.fn = "pending_key"
    /\ ~call.done
    /\ LET key1 == PendingKey(FindMyItem(call.args[1], call.args[1], 0, <<>>),
                              Row(call.args[1], call.args[2]))
           key2 == PendingKey(FindMyItem(call.args[3], call.args[3], 0, <<>>),
                              Row(call.args[3], call.args[4]))
       IN  call' = [call EXCEPT !.value = <<key1, key2, SplitKey(key1)>>,
                                !.done = TRUE]
    /\ UNCHANGED <<polling, timers, last_items, last_sent_timestamps,
                   pending_data, pending_file, config, pc, caller, force_send,
                   new_items, work, attempt_args, log, result>>

NextKey == ApplyKey

SpecKey == InitKey /\ [][NextKey]_vars

\* C18: the parts taken from a key are the serial and the base URL (with its
\* trailing slash) the key was built from, and two pairs with different
\* serials or different base URLs have different keys.
C18_KeyUnambiguous ==
    (call.fn = "pending_key" /\ call.done) =>
        /\ call.value[3] = <<call.args[1], WithSlash(call.args[2])>>
        /\ (\/ call.args[1] # call.args[3]
            \/ WithSlash(call.args[2]) # WithSlash(call.args[4]))
               => call.value[1] # call.value[2]

\* C19: while polling is on, at most one timer callback is waiting; counting
\* the cycle a callback is running, at most one chain of timer cycles is
\* alive at any time.
C19_OneTimerChain ==
    polling => timers + (IF caller = "poll" /\ pc # "idle" THEN 1 ELSE 0) <= 1

----------------------------------------------------------------------------
\* the monitor started once on a file that holds queues, polling for ever

\* the files a run before this one can have left
StartFiles ==
    { FileOf(m) : m \in UNION { [keys -> {<<TestPoint1>>}] :
                                keys \in SUBSET TestKeys } }

InitLive ==
    /\ \E file \in StartFiles : Constructed(file)
    /\ config \in Configs
    /\ call = NoCall

\* monitor.start_polling(root) of the main program
main_start ==
    /\ ~polling
    /\ start_polling

NextLive ==
    \/ main_start
    \/ poll
    \/ send_item_location
    \/ attempt_send_pending
    \/ finish_cycle
    \/ return_to_caller

\* the event loop takes the next callback and every call returns
SpecLive == InitLive /\ [][NextLive]_vars /\ WF_vars(NextLive)

\* a request for key k is in the record of the running cycle
Attempted(k) == \E i \in 1..Len(log) : log[i].ev = "post" /\ log[i].key = k

\* a timer cycle has run to its end
TimerCycleDone == pc = "finish" /\ caller = "poll"

\* C20: if timer cycles keep running for ever, every queue that is not empty
\* when the monitor is constructed is sent in a request at some later time,
\* whatever its key.
C20_LoadedQueueAttempted ==
    \A k \in TestKeys :
        []<>TimerCycleDone =>
            ((~polling /\ pc = "idle" /\ QueueOf(pending_data, k) # <<>>)
                ~> Attempted(k))

====
